---- MODULE Spec2Model ----
(***************************************************************************)
(* Model of convert_tide_data.py: the tide CSV -> hourly JSON converter.   *)
(*                                                                         *)
(* Units.  A datetime is the number of minutes since 00:00 of day 0; a     *)
(* calendar date (the "%Y-%m-%d" string) is its day index, whose zero-     *)
(* padded ISO text orders exactly as the index does.  A height as parsed   *)
(* from the CSV is an integer number of hundredths of a metre; a height    *)
(* after round(ht, 1) is an integer number of tenths of a metre.  Text     *)
(* fields of the CSV are sequences of one-character strings.               *)
(***************************************************************************)
EXTENDS Integers, Sequences, FiniteSets, TLC

VARIABLES csv_file, pc, extrema, daily_tides, issues, output_json, err

vars == <<csv_file, pc, extrema, daily_tides, issues, output_json, err>>

(* ------------------------------ bounds --------------------------------- *)

\* last day index an input date may name (days 0..MaxDay)
MaxDay == 2
\* longest extrema list the generator is started on in SpecGen
MaxExtrema == 3
\* most data rows of an input CSV file in Spec
MaxRows == 2

(* ------------------------- program constants --------------------------- *)

MinutesPerHour == 60
MinutesPerDay == 1440
HoursPerDay == 24
\* lower plausible tide level, -0.5 m, in tenths of a metre
MinLevel == -5
\* upper plausible tide level, 4 m, in tenths of a metre
MaxLevel == 40
\* number of (time, height) slots of a row: range(1, 5)
NumSlots == 4

NoFile == [written |-> FALSE, data |-> <<>>]

(* --------------------------- text primitives --------------------------- *)

Digits == {"0", "1", "2", "3", "4", "5", "6", "7", "8", "9"}

DigitVal(c) ==
  CASE c = "0" -> 0 [] c = "1" -> 1 [] c = "2" -> 2 [] c = "3" -> 3
    [] c = "4" -> 4 [] c = "5" -> 5 [] c = "6" -> 6 [] c = "7" -> 7
    [] c = "8" -> 8 [] c = "9" -> 9

AllDigits(s) == \A k \in 1..Len(s) : s[k] \in Digits

RECURSIVE DigitsValue(_)
DigitsValue(s) ==
  IF Len(s) = 0 THEN 0
  ELSE 10 * DigitsValue(SubSeq(s, 1, Len(s) - 1)) + DigitVal(s[Len(s)])

\* str.strip(): drop leading and trailing whitespace
RECURSIVE strip(_)
strip(s) ==
  IF Len(s) = 0 THEN s
  ELSE IF s[1] = " " THEN strip(Tail(s))
  ELSE IF s[Len(s)] = " " THEN strip(SubSeq(s, 1, Len(s) - 1))
  ELSE s

\* s[:n] and s[n:] of a Python string
Prefix(s, n) == SubSeq(s, 1, IF n < Len(s) THEN n ELSE Len(s))
Suffix(s, n) == SubSeq(s, n + 1, Len(s))

\* int(s): surrounding whitespace and one sign are accepted, then digits
int(s) ==
  LET b == strip(s)
      signed == Len(b) > 0 /\ b[1] \in {"+", "-"}
      d == IF signed THEN Tail(b) ELSE b
  IN  IF Len(d) = 0 \/ ~AllDigits(d)
      THEN [err |-> "ValueError", val |-> 0]
      ELSE [err |-> "none",
            val |-> IF signed /\ b[1] = "-" THEN 0 - DigitsValue(d)
                    ELSE DigitsValue(d)]

\* position of the decimal point in s, 0 when there is none
RECURSIVE PointAt(_, _)
PointAt(s, k) ==
  IF k > Len(s) THEN 0 ELSE IF s[k] = "." THEN k ELSE PointAt(s, k + 1)

\* float(s) for plain decimal text, in hundredths (at most two decimals)
float(s) ==
  LET b == strip(s)
      signed == Len(b) > 0 /\ b[1] \in {"+", "-"}
      d == IF signed THEN Tail(b) ELSE b
      p == PointAt(d, 1)
      ip == IF p = 0 THEN d ELSE SubSeq(d, 1, p - 1)
      fp == IF p = 0 THEN <<>> ELSE SubSeq(d, p + 1, Len(d))
      f2 == IF Len(fp) = 0 THEN 0
            ELSE IF Len(fp) = 1 THEN 10 * DigitVal(fp[1])
            ELSE DigitsValue(SubSeq(fp, 1, 2))
      mag == 100 * DigitsValue(ip) + f2
  IN  IF Len(ip) + Len(fp) = 0 \/ ~AllDigits(ip) \/ ~AllDigits(fp)
      THEN [err |-> "ValueError", val |-> 0]
      ELSE [err |-> "none",
            val |-> IF signed /\ b[1] = "-" THEN 0 - mag ELSE mag]

(* ------------------------ datetime primitives -------------------------- *)

\* t.strftime("%Y-%m-%d"): the calendar day of t
strftime_date(t) == t \div MinutesPerDay

\* t.strftime("%H:00"): the hour of day of t
strftime_hour(t) == (t % MinutesPerDay) \div MinutesPerHour

\* t.replace(hour=h, minute=m, second=0, microsecond=0)
replace(t, h, m) == strftime_date(t) * MinutesPerDay + h * MinutesPerHour + m

\* round(x, 1) of a height given in hundredths: nearest tenth, ties to even
round1(v) ==
  LET q == v \div 10
      r == v % 10
  IN  IF r < 5 THEN q
      ELSE IF r > 5 THEN q + 1
      ELSE IF q % 2 = 0 THEN q ELSE q + 1

(* --------------------------- interpolation ----------------------------- *)

\* 0.5 * (1 + sin(pi*x - pi/2)) for x = n/d in (0, 1), in thousandths.
\* The sine is evaluated in fixed point by Bhaskara's rational form
\* cos(pi*x) ~ (1 - 4x^2) / (1 + x^2) on [0, 1/2] and its mirror image
\* on [1/2, 1]; x itself is taken in thousandths.  The value is within
\* 0.003 of the floating-point one, so a level strictly inside an interval
\* can differ from the program's by one tenth next to a rounding boundary;
\* the clamped values at and outside the end points are exact.
half_sine(n, d) ==
  LET x == (1000 * n) \div d
      y == IF x <= 500 THEN x ELSE 1000 - x
      r == (5 * y * y * 1000) \div (2 * (1000000 + y * y))
  IN  IF x <= 500 THEN r ELSE 1000 - r

\* variant: the two clamps return the opposite extremum's height
tide_height_between_swapped(t, t0, h0, t1, h1) ==
  IF t <= t0 THEN [err |-> "none", val |-> h1]
  ELSE IF t >= t1 THEN [err |-> "none", val |-> h0]
  ELSE IF t1 - t0 = 0 THEN [err |-> "ZeroDivisionError", val |-> 0]
  ELSE [err |-> "none",
        val |-> h0 + ((h1 - h0) * half_sine(t - t0, t1 - t0)) \div 1000]

\* variant: the clamps use strict comparisons, t < t0 and t > t1
tide_height_between_strict(t, t0, h0, t1, h1) ==
  IF t < t0 THEN [err |-> "none", val |-> h0]
  ELSE IF t > t1 THEN [err |-> "none", val |-> h1]
  ELSE IF t1 - t0 = 0 THEN [err |-> "ZeroDivisionError", val |-> 0]
  ELSE [err |-> "none",
        val |-> h0 + ((h1 - h0) * half_sine(t - t0, t1 - t0)) \div 1000]

tide_height_between(t, t0, h0, t1, h1) ==
  IF t <= t0 THEN [err |-> "none", val |-> h0]
  ELSE IF t >= t1 THEN [err |-> "none", val |-> h1]
  ELSE IF t1 - t0 = 0 THEN [err |-> "ZeroDivisionError", val |-> 0]
  ELSE [err |-> "none",
        val |-> h0 + ((h1 - h0) * half_sine(t - t0, t1 - t0)) \div 1000]

(* ------------------------- hourly reconstruction ----------------------- *)

\* variant: the pair scan excludes the end points, t0 < t < t1
brackets_strict(t, t0, t1) == t0 < t /\ t < t1

\* the condition of the pair scan: if t0 <= t <= t1
brackets(t, t0, t1) == t0 <= t /\ t <= t1

\* for i in range(len(extrema) - 1): the first bracketing pair from i on,
\* 0 when the scan ends without one
RECURSIVE find_pair(_, _, _)
find_pair(ex, t, i) ==
  IF i > Len(ex) - 1 THEN 0
  ELSE IF brackets(t, ex[i].time, ex[i + 1].time) THEN i
  ELSE find_pair(ex, t, i + 1)

\* the body of the while loop at tick t: whether a pair brackets t, and the
\* value stored under the tick's day and hour
tick_sample(ex, t) ==
  LET i == find_pair(ex, t, 1)
  IN  IF i = 0 THEN [hit |-> FALSE, err |-> "none", val |-> 0]
      ELSE LET ht == tide_height_between(t, ex[i].time, ex[i].height,
                                         ex[i + 1].time, ex[i + 1].height)
           IN  [hit |-> TRUE, err |-> ht.err,
                val |-> IF ht.err = "none" THEN round1(ht.val) ELSE 0]

\* while t <= end: ... t += timedelta(hours=1).  The result is daily_data:
\* for each date_str met a day holding, per hour_str, the value of the last
\* tick written under that key.
hourly_loop(ex, start, end) ==
  LET ticks == { start + MinutesPerHour * k :
                   k \in 0..((end - start) \div MinutesPerHour) }
      hits == { t \in ticks : tick_sample(ex, t).hit }
      at(d, h) == { t \in hits : strftime_date(t) = d /\ strftime_hour(t) = h }
      last(d, h) == CHOOSE t \in at(d, h) : \A u \in at(d, h) : u <= t
  IN  IF \E t \in hits : tick_sample(ex, t).err # "none"
      THEN [err |-> "ZeroDivisionError", val |-> <<>>]
      ELSE [err |-> "none",
            val |-> [d \in { strftime_date(t) : t \in hits } |->
                      [Date |-> d,
                       hours |-> [h \in { strftime_hour(t) :
                                            t \in { u \in hits : strftime_date(u) = d } }
                                    |-> tick_sample(ex, last(d, h)).val]]]]

\* sorted(keys): ascending list of a set of dates
RECURSIVE sorted(_)
sorted(keys) ==
  IF keys = {} THEN <<>>
  ELSE LET m == CHOOSE k \in keys : \A j \in keys : k <= j
       IN  <<m>> \o sorted(keys \ {m})

\* variant: the days are listed in descending order of date
to_list_reversed(daily_data) ==
  LET ks == sorted(DOMAIN daily_data)
  IN  [k \in 1..Len(ks) |-> daily_data[ks[Len(ks) + 1 - k]]]

\* [daily_data[date] for date in sorted(daily_data.keys())]
to_list(daily_data) ==
  LET ks == sorted(DOMAIN daily_data)
  IN  [k \in 1..Len(ks) |-> daily_data[ks[k]]]

generate_hourly_tides(ex) ==
  IF Len(ex) = 0 THEN [err |-> "IndexError", val |-> <<>>]
  ELSE
    LET start == replace(ex[1].time, 0, 0)
        end == replace(ex[Len(ex)].time, 23, 0)
        r == hourly_loop(ex, start, end)
    IN  IF r.err # "none" THEN [err |-> r.err, val |-> <<>>]
        ELSE [err |-> "none", val |-> to_list(r.val)]

(* ------------------------------ validation ----------------------------- *)

\* the hour keys of a day in dict order (insertion order: ascending ticks)
hour_keys(day) == sorted(DOMAIN day.hours)

\* for hour_str, level in day.items(): the "Unusual tide level" findings
RECURSIVE level_issues(_, _, _)
level_issues(day, ks, k) ==
  IF k > Len(ks) THEN <<>>
  ELSE LET level == day.hours[ks[k]]
       IN  (IF ~(MinLevel <= level /\ level <= MaxLevel)
            THEN <<[kind |-> "level", date |-> day.Date,
                    hour |-> ks[k], n |-> level]>>
            ELSE <<>>) \o level_issues(day, ks, k + 1)

day_issues(day) ==
  LET hours_present == Cardinality(DOMAIN day.hours)
  IN  (IF hours_present # HoursPerDay
       THEN <<[kind |-> "hours", date |-> day.Date,
               hour |-> 0, n |-> hours_present]>>
       ELSE <<>>) \o level_issues(day, hour_keys(day), 1)

RECURSIVE all_issues(_, _)
all_issues(days, k) ==
  IF k > Len(days) THEN <<>>
  ELSE day_issues(days[k]) \o all_issues(days, k + 1)

\* variant: the days that have findings are removed from the list
validate_output_dropping(days) ==
  [issues |-> all_issues(days, 1),
   daily_tides |-> SelectSeq(days, LAMBDA day : day_issues(day) = <<>>)]

\* returns the findings, and the list it was given as the call leaves it
validate_output(days) ==
  [issues |-> all_issues(days, 1), daily_tides |-> days]

(* ------------------------------ CSV loader ----------------------------- *)

\* row.get(key, '') on a csv.DictReader row; k is the position of the key
\* after Date (Time1 = 1, Height1 = 2, ...).  A key the header lacks gives
\* the default ''; a key the header has but a short row lacks gives the
\* reader's restval, None.
row_get(ncols, row, k) ==
  IF k > ncols THEN [none |-> FALSE, s |-> <<>>]
  ELSE IF k > Len(row.fields) THEN [none |-> TRUE, s |-> <<>>]
  ELSE [none |-> FALSE, s |-> row.fields[k]]

\* date_str.startswith('EXAMPLE')
is_example(date_str) == date_str.kind = "EXAMPLE"

\* datetime.strptime(date_str, '%Y-%m-%d')
strptime(date_str) ==
  IF date_str.kind = "iso"
  THEN [err |-> "none", val |-> date_str.day * MinutesPerDay]
  ELSE [err |-> "ValueError", val |-> 0]

\* the body of "for i in range(1, 5)" for slot i of a row: the exception it
\* raises, or else the extremum it appends (has) if it appends one
parse_slot(ncols, row, i) ==
  LET tv == row_get(ncols, row, 2 * i - 1)
      hv == row_get(ncols, row, 2 * i)
      time_val == strip(tv.s)
      height_val == strip(hv.s)
      hour == int(Prefix(time_val, 2))
      minute == int(Suffix(time_val, 2))
      dt == strptime(row.Date)
      height == float(height_val)
      skip == [err |-> "none", has |-> FALSE, time |-> 0, height |-> 0]
  IN  IF tv.none \/ hv.none THEN [skip EXCEPT !.err = "AttributeError"]
      ELSE IF ~(Len(time_val) > 0 /\ Len(height_val) > 0) THEN skip
      ELSE IF hour.err # "none" \/ minute.err # "none" \/ dt.err # "none"
      THEN [skip EXCEPT !.err = "ValueError"]
      ELSE IF hour.val \notin 0..23 \/ minute.val \notin 0..59
      THEN [skip EXCEPT !.err = "ValueError"]
      ELSE IF height.err # "none" THEN [skip EXCEPT !.err = "ValueError"]
      ELSE [err |-> "none", has |-> TRUE,
            time |-> replace(dt.val, hour.val, minute.val),
            height |-> height.val]

\* what the two loops leave, given the outcomes of the slot bodies in the
\* order they run: the first exception if there is one, and the extrema
\* appended to the list before it
collect(done) ==
  LET bad == { q \in 1..Len(done) : done[q].err # "none" }
      stop == IF bad = {} THEN Len(done) + 1
              ELSE CHOOSE q \in bad : \A u \in bad : q <= u
      kept == SelectSeq(SubSeq(done, 1, stop - 1), LAMBDA x : x.has)
  IN  [err |-> IF bad = {} THEN "none" ELSE done[stop].err,
       val |-> [q \in 1..Len(kept) |->
                  [time |-> kept[q].time, height |-> kept[q].height]]]

\* for row in reader: for i in range(1, 5): the slot bodies of the rows that
\* are not EXAMPLE rows, in the order the two loops run them
parse_rows(ncols, rows) ==
  LET n == NumSlots * Len(rows)
      row_of(p) == rows[((p - 1) \div NumSlots) + 1]
      slot_of(p) == ((p - 1) % NumSlots) + 1
      steps == SelectSeq([p \in 1..n |-> p],
                         LAMBDA p : ~is_example(row_of(p).Date))
  IN  CHOOSE res \in
        { collect(done) :
            done \in { SubSeq([q \in 1..Len(steps) |->
                                parse_slot(ncols, row_of(steps[q]), slot_of(steps[q]))],
                              1, Len(steps)) } } : TRUE

\* extrema.sort(key=lambda x: x['time']): a stable sort; the element at j
\* moves behind those with an earlier time and those before it with its time
sort_by_time(sq) ==
  LET rank(j) == 1 + Cardinality({ m \in 1..Len(sq) :
                      \/ sq[m].time < sq[j].time
                      \/ (sq[m].time = sq[j].time /\ m < j) })
  IN  [p \in 1..Len(sq) |-> sq[CHOOSE j \in 1..Len(sq) : rank(j) = p]]

parse_csv_to_extrema(file) ==
  IF ~file.exists THEN [err |-> "FileNotFoundError", val |-> <<>>]
  ELSE CHOOSE res \in
         { IF r.err # "none" THEN [err |-> r.err, val |-> <<>>]
           ELSE [err |-> "none", val |-> sort_by_time(r.val)] :
             r \in { parse_rows(file.ncols, file.rows) } } : TRUE

(* ------------------------------- inputs -------------------------------- *)

E == <<>>
SP == <<" ">>
T0000 == <<"0", "0", "0", "0">>
T0107 == <<"0", "1", "0", "7">>
T0746 == <<"0", "7", "4", "6">>
T0746pad == <<" ", "0", "7", "4", "6", " ">>
T0800 == <<"0", "8", "0", "0">>
T1400 == <<"1", "4", "0", "0">>
T2018 == <<"2", "0", "1", "8">>
T2300 == <<"2", "3", "0", "0">>
T25AB == <<"2", "5", "A", "B">>
T123 == <<"1", "2", "3">>
H1p1 == <<"1", ".", "1">>
H2p7 == <<"2", ".", "7">>
H2p7pad == <<" ", "2", ".", "7", " ">>
H2p6 == <<"2", ".", "6">>
H10p0 == <<"1", "0", ".", "0">>
Hm0p62 == <<"-", "0", ".", "6", "2">>
Habc == <<"a", "b", "c">>

\* the fields after Date of the rows the input files are made of
FieldLists ==
  { <<T0107, H1p1, T0746, H2p7, T1400, H1p1, T2018, H2p6>>,
    <<T0000, Hm0p62, T2300, H10p0, E, E, E, E>>,
    <<T0107, H1p1, T0746, H2p7>>,
    <<T25AB, H1p1, E, E, E, E, E, E>>,
    <<T123, H1p1, E, E, E, E, E, E>>,
    <<T0800, Habc, E, E, E, E, E, E>>,
    <<T0746pad, H2p7pad, T1400, SP, E, H1p1, T0800, H2p6>>,
    <<E, E, E, E, E, E, E, E>> }

DateFields ==
  { [kind |-> "iso", day |-> d] : d \in {0, MaxDay} }
    \cup { [kind |-> "EXAMPLE", day |-> 0], [kind |-> "invalid", day |-> 0] }

InputRows == { [Date |-> d, fields |-> f] : d \in DateFields, f \in FieldLists }

\* header column counts: all four slots, or only Time1..Height2
HeaderCols == {2 * NumSlots, NumSlots}

InputFiles ==
  { [exists |-> FALSE, ncols |-> 2 * NumSlots, rows |-> <<>>] }
    \cup { [exists |-> TRUE, ncols |-> c, rows |-> r] :
             c \in HeaderCols,
             r \in UNION { [1..n -> InputRows] : n \in 0..MaxRows } }

\* times of day and heights of the extrema the generator is started on
TimesOfDay == {67, 480, 1218}
Heights == {123, 1000}

Points ==
  { [time |-> d * MinutesPerDay + m, height |-> h] :
      d \in 0..MaxDay, m \in TimesOfDay, h \in Heights }

is_sorted(sq) == \A k \in 1..(Len(sq) - 1) : sq[k].time <= sq[k + 1].time

SortedExtrema ==
  UNION { { sq \in [1..n -> Points] : is_sorted(sq) } : n \in 0..MaxExtrema }

(* ------------------------------- main ---------------------------------- *)

Init ==
  /\ csv_file \in InputFiles
  /\ pc = "parse"
  /\ extrema = <<>>
  /\ daily_tides = <<>>
  /\ issues = <<>>
  /\ output_json = NoFile
  /\ err = "none"

\* variant: a row error is recorded and the run goes on with the extrema
\* parsed before it
Step1ParseKeepGoing ==
  /\ pc = "parse"
  /\ \E r \in { parse_csv_to_extrema(csv_file) } :
       IF ~csv_file.exists
       THEN /\ pc' = "failed"
            /\ err' = r.err
            /\ extrema' = extrema
       ELSE /\ pc' = "generate"
            /\ err' = r.err
            /\ \E done \in { parse_rows(csv_file.ncols, csv_file.rows) } :
                 extrema' = sort_by_time(done.val)
  /\ UNCHANGED <<csv_file, daily_tides, issues, output_json>>

\* Step 1: extrema = parse_csv_to_extrema(input_csv); an exception leaves
\* main for the handlers of the __main__ block
Step1Parse ==
  /\ pc = "parse"
  /\ \E r \in { parse_csv_to_extrema(csv_file) } :
       IF r.err # "none"
       THEN /\ pc' = "failed"
            /\ err' = r.err
            /\ extrema' = extrema
       ELSE /\ pc' = "generate"
            /\ err' = err
            /\ extrema' = r.val
  /\ UNCHANGED <<csv_file, daily_tides, issues, output_json>>

\* Step 2: daily_tides = generate_hourly_tides(extrema)
Step2Generate ==
  /\ pc = "generate"
  /\ \E r \in { generate_hourly_tides(extrema) } :
       IF r.err # "none"
       THEN /\ pc' = "failed"
            /\ err' = r.err
            /\ daily_tides' = daily_tides
       ELSE /\ pc' = "validate"
            /\ err' = err
            /\ daily_tides' = r.val
  /\ UNCHANGED <<csv_file, extrema, issues, output_json>>

\* Step 3: issues = validate_output(daily_tides)
Step3Validate ==
  /\ pc = "validate"
  /\ \E r \in { validate_output(daily_tides) } :
       /\ issues' = r.issues
       /\ daily_tides' = r.daily_tides
  /\ pc' = "write"
  /\ UNCHANGED <<csv_file, extrema, output_json, err>>

\* Step 4: json.dump(daily_tides, f)
Step4Write ==
  /\ pc = "write"
  /\ output_json' = [written |-> TRUE, data |-> daily_tides]
  /\ pc' = "done"
  /\ UNCHANGED <<csv_file, extrema, daily_tides, issues, err>>

Next == Step1Parse \/ Step2Generate \/ Step3Validate \/ Step4Write

Spec == Init /\ [][Next]_vars

\* The reconstruction and validation run on an already loaded, sorted
\* extrema list.
InitGen ==
  /\ csv_file = [exists |-> TRUE, ncols |-> 2 * NumSlots, rows |-> <<>>]
  /\ pc = "generate"
  /\ extrema \in SortedExtrema
  /\ daily_tides = <<>>
  /\ issues = <<>>
  /\ output_json = NoFile
  /\ err = "none"

NextGen == Step2Generate \/ Step3Validate \/ Step4Write

SpecGen == InitGen /\ [][NextGen]_vars

(* ----------------------- vocabulary of the claims ----------------------- *)

ParseErrors == {"FileNotFoundError", "ValueError", "AttributeError"}

\* generate_hourly_tides has returned
Generated == pc \in {"validate", "write", "done"}

FirstDay == strftime_date(extrema[1].time)
LastDay == strftime_date(extrema[Len(extrema)].time)

\* the hours recorded for day d in a list of daily records
HoursOf(days, d) ==
  UNION { DOMAIN days[k].hours : k \in { j \in DOMAIN days : days[j].Date = d } }

AllHours == 0..(HoursPerDay - 1)

Complete(day) == DOMAIN day.hours = AllHours

\* t is an hour tick
OnTick(t) == t % MinutesPerHour = 0

\* the value recorded for tick t in daily_tides, as a set (empty if none)
Recorded(t) ==
  { daily_tides[k].hours[strftime_hour(t)] :
      k \in { j \in DOMAIN daily_tides :
                /\ daily_tides[j].Date = strftime_date(t)
                /\ strftime_hour(t) \in DOMAIN daily_tides[j].hours } }

\* slot i of a row has both sub-fields in the row and non-empty once trimmed
Filled(file, row, i) ==
  /\ 2 * i <= file.ncols
  /\ 2 * i <= Len(row.fields)
  /\ Len(strip(row.fields[2 * i - 1])) > 0
  /\ Len(strip(row.fields[2 * i])) > 0

\* a time text of exactly four digits naming an hour and a minute
IsHHMM(s) ==
  /\ Len(s) = 4
  /\ AllDigits(s)
  /\ DigitsValue(SubSeq(s, 1, 2)) \in 0..23
  /\ DigitsValue(SubSeq(s, 3, 4)) \in 0..59

IsNumeric(s) == float(s).err = "none"

DataRows(file) ==
  { k \in DOMAIN file.rows : file.rows[k].Date.kind # "EXAMPLE" }

FilledSlots(file) ==
  { <<k, i>> \in DataRows(file) \X (1..NumSlots) : Filled(file, file.rows[k], i) }

\* every filled slot of every data row carries a valid date, an HHMM time
\* and a decimal height
WellFormed(file) ==
  \A ki \in FilledSlots(file) :
    LET row == file.rows[ki[1]]
    IN  /\ row.Date.kind = "iso"
        /\ IsHHMM(strip(row.fields[2 * ki[2] - 1]))
        /\ IsNumeric(row.fields[2 * ki[2]])

(* ------------------------------- claims -------------------------------- *)

\* C1: when zero extrema were loaded, generate_hourly_tides returns an empty
\* list of daily records without raising, and main completes with zero days
\* of output.
C1_EmptyInputYieldsNoDays ==
  (pc \notin {"parse", "generate"} /\ err \notin ParseErrors /\ extrema = <<>>)
    => /\ pc # "failed"
       /\ daily_tides = <<>>
       /\ (pc = "done" => output_json = [written |-> TRUE, data |-> <<>>])

\* C2: for every non-empty sorted extrema list the result has, for every day
\* from the first extremum's day to the last extremum's day, a record with
\* all 24 hour keys.
C2_EveryHourSampled ==
  (pc \notin {"parse", "generate"} /\ err \notin ParseErrors /\ Len(extrema) > 0)
    => /\ pc # "failed"
       /\ \A d \in FirstDay..LastDay : HoursOf(daily_tides, d) = AllHours
       /\ \A k \in DOMAIN daily_tides : Complete(daily_tides[k])

\* C3: a daily record with fewer than 24 hours can only be that of the first
\* extremum's day or of the last extremum's day; every day strictly between
\* the two is emitted with all 24 hours.
C3_OnlyEdgeDaysIncomplete ==
  Generated =>
    /\ \A k \in DOMAIN daily_tides :
         ~Complete(daily_tides[k]) => daily_tides[k].Date \in {FirstDay, LastDay}
    /\ \A d \in (FirstDay + 1)..(LastDay - 1) :
         \E k \in DOMAIN daily_tides :
           daily_tides[k].Date = d /\ Complete(daily_tides[k])

\* C3 witness: a run over three or more days whose first day is incomplete
\* and whose middle day is complete.
C3_Witness ==
  /\ pc = "done"
  /\ LastDay - FirstDay >= 2
  /\ \E k \in DOMAIN daily_tides :
       daily_tides[k].Date = FirstDay /\ ~Complete(daily_tides[k])
  /\ \E k \in DOMAIN daily_tides :
       daily_tides[k].Date = FirstDay + 1 /\ Complete(daily_tides[k])

\* C4 as stated: for every consecutive pair with t0 <= t1 the interpolated
\* height at t0 is h0 and at t1 is h1, and an hour tick that coincides with
\* an extremum's timestamp is recorded with that extremum's rounded height.
C4_EndpointsExact ==
  /\ \A i \in 1..(Len(extrema) - 1) :
       LET t0 == extrema[i].time
           h0 == extrema[i].height
           t1 == extrema[i + 1].time
           h1 == extrema[i + 1].height
       IN  /\ tide_height_between(t0, t0, h0, t1, h1) = [err |-> "none", val |-> h0]
           /\ tide_height_between(t1, t0, h0, t1, h1) = [err |-> "none", val |-> h1]
  /\ (Generated /\ Len(extrema) >= 2) =>
       \A k \in DOMAIN extrema :
         OnTick(extrema[k].time) =>
           Recorded(extrema[k].time) = {round1(extrema[k].height)}

\* the first extremum in list order that has the timestamp of extremum k
FirstAt(k) ==
  CHOOSE j \in DOMAIN extrema :
    /\ extrema[j].time = extrema[k].time
    /\ \A m \in DOMAIN extrema : extrema[m].time = extrema[k].time => j <= m

\* C4 amended: the height at t0 is h0; the height at t1 is h1 when t0 < t1 and
\* is h0 when t0 = t1; in a list of two or more extrema an hour tick that
\* coincides with an extremum's timestamp is recorded with the rounded height
\* of the first extremum in list order that has that timestamp.
C4_EndpointsAmended ==
  /\ \A i \in 1..(Len(extrema) - 1) :
       LET t0 == extrema[i].time
           h0 == extrema[i].height
           t1 == extrema[i + 1].time
           h1 == extrema[i + 1].height
       IN  /\ tide_height_between(t0, t0, h0, t1, h1) = [err |-> "none", val |-> h0]
           /\ tide_height_between(t1, t0, h0, t1, h1) =
                [err |-> "none", val |-> IF t0 < t1 THEN h1 ELSE h0]
  /\ (Generated /\ Len(extrema) >= 2) =>
       \A k \in DOMAIN extrema :
         OnTick(extrema[k].time) =>
           Recorded(extrema[k].time) = {round1(extrema[FirstAt(k)].height)}

\* C4 witness: the output was written for a list in which two consecutive
\* extrema share an on-the-hour timestamp with different heights, and a
\* later extremum on the hour follows an earlier one.
C4_Witness ==
  /\ pc = "done"
  /\ \E i \in 1..(Len(extrema) - 1) :
       /\ extrema[i].time = extrema[i + 1].time
       /\ extrema[i].height # extrema[i + 1].height
       /\ OnTick(extrema[i].time)
  /\ \E i \in 1..(Len(extrema) - 1) :
       /\ extrema[i].time < extrema[i + 1].time
       /\ OnTick(extrema[i + 1].time)

\* C5: for every data row one extremum is emitted per slot whose time and
\* height are both present and non-empty after trimming, and every other slot
\* is skipped without error (stated for files whose filled slots are all
\* well formed).
C5_OneExtremumPerFilledSlot ==
  (pc # "parse" /\ csv_file.exists /\ WellFormed(csv_file))
    => /\ err \notin ParseErrors
       /\ Len(extrema) = Cardinality(FilledSlots(csv_file))

\* C6: parsing fails whenever a filled slot's time or height is non-numeric
\* or its time is not exactly four digits; no such file yields an extrema
\* list.
C6_MalformedSlotRejected ==
  (/\ pc # "parse"
   /\ csv_file.exists
   /\ \E ki \in FilledSlots(csv_file) :
        LET row == csv_file.rows[ki[1]]
            tm == strip(row.fields[2 * ki[2] - 1])
        IN  \/ Len(tm) # 4
            \/ ~AllDigits(tm)
            \/ ~IsNumeric(row.fields[2 * ki[2]]))
    => (pc = "failed" /\ err \in ParseErrors)

\* C7: the output file is written only after the whole input was parsed
\* without error: while parsing is pending, and after any failure, there is
\* no output file, and a written file holds the result generated from the
\* extrema of the fully parsed input.
C7_NoOutputUnlessParsed ==
  /\ pc = "parse" => output_json = NoFile
  /\ err # "none" => output_json = NoFile
  /\ output_json.written =>
       /\ parse_csv_to_extrema(csv_file) = [err |-> "none", val |-> extrema]
       /\ output_json.data = generate_hourly_tides(extrema).val

\* C7 witness: the run was aborted by the malformed time 25AB and no output
\* file exists.
C7_Witness ==
  /\ pc = "failed"
  /\ err = "ValueError"
  /\ output_json = NoFile
  /\ \E k \in DataRows(csv_file) : csv_file.rows[k].fields[1] = T25AB

\* the number of (record, hour) entries of days whose level is out of range
OutOfRange(days) ==
  { <<k, h>> \in (DOMAIN days) \X AllHours :
      /\ h \in DOMAIN days[k].hours
      /\ ~(MinLevel <= days[k].hours[h] /\ days[k].hours[h] <= MaxLevel) }

Incomplete(days) ==
  { k \in DOMAIN days : Cardinality(DOMAIN days[k].hours) # HoursPerDay }

\* C8: validation reports one finding per record whose hour count is not 24
\* and one per height outside [-0.5, 4.0], leaves the list of daily records
\* as generated, and main writes that full list whatever the findings.
C8_ValidationIsDiagnostic ==
  (pc \in {"write", "done"}) =>
    LET gen == generate_hourly_tides(extrema).val
    IN  /\ daily_tides = gen
        /\ Len(issues) = Cardinality(Incomplete(gen)) + Cardinality(OutOfRange(gen))
        /\ \A k \in Incomplete(gen) :
             \E j \in DOMAIN issues :
               /\ issues[j].kind = "hours"
               /\ issues[j].date = gen[k].Date
               /\ issues[j].n = Cardinality(DOMAIN gen[k].hours)
        /\ \A kh \in OutOfRange(gen) :
             \E j \in DOMAIN issues :
               /\ issues[j].kind = "level"
               /\ issues[j].date = gen[kh[1]].Date
               /\ issues[j].hour = kh[2]
               /\ issues[j].n = gen[kh[1]].hours[kh[2]]
        /\ pc = "done" => output_json = [written |-> TRUE, data |-> gen]

\* C8 witness: the output was written with findings of both kinds present,
\* among them a level of 10.0 m that is in the written data.
C8_Witness ==
  /\ pc = "done"
  /\ \E j \in DOMAIN issues : issues[j].kind = "hours"
  /\ \E j \in DOMAIN issues : issues[j].kind = "level" /\ issues[j].n = 100
  /\ \E k \in DOMAIN output_json.data :
       \E h \in DOMAIN output_json.data[k].hours :
         output_json.data[k].hours[h] = 100

\* C9: the list of daily records is sorted by date strictly ascending, hence
\* without duplicate dates.
C9_SortedByDate ==
  /\ \A j, k \in DOMAIN daily_tides :
       j < k => daily_tides[j].Date < daily_tides[k].Date
  /\ Generated =>
       { daily_tides[k].Date : k \in DOMAIN daily_tides } =
         { d \in FirstDay..LastDay : HoursOf(daily_tides, d) # {} }

\* C9 witness: a generated list of two or more days.
C9_Witness == pc = "done" /\ Len(daily_tides) >= 2

\* the hour ticks the generator visits
Ticks ==
  IF Len(extrema) = 0 THEN {}
  ELSE { FirstDay * MinutesPerDay + MinutesPerHour * k :
           k \in 0..((LastDay - FirstDay + 1) * HoursPerDay - 1) }

\* C10: for a pair with equal timestamps the interpolation returns h0 or h1
\* for every query and never divides; no query against any pair of a sorted
\* list raises a division by zero, and generation never fails with one.
C10_NoDivisionByZero ==
  /\ err # "ZeroDivisionError"
  /\ \A i \in 1..(Len(extrema) - 1) :
       \A t \in Ticks \cup {extrema[i].time, extrema[i + 1].time} :
         LET r == tide_height_between(t, extrema[i].time, extrema[i].height,
                                      extrema[i + 1].time, extrema[i + 1].height)
         IN  /\ r.err = "none"
             /\ extrema[i].time = extrema[i + 1].time =>
                  r.val \in {extrema[i].height, extrema[i + 1].height}

\* C10 witness: the output was written for a list with two extrema at the
\* same on-the-hour timestamp, that tick being recorded.
C10_Witness ==
  /\ pc = "done"
  /\ \E i \in 1..(Len(extrema) - 1) :
       /\ extrema[i].time = extrema[i + 1].time
       /\ OnTick(extrema[i].time)
       /\ Recorded(extrema[i].time) # {}

====
